---- MODULE Spec2Model ----
(***************************************************************************)
(* Model of the Meta-insights ETL scripts src/app.py and                   *)
(* src/idadeGenero.py: the period generator (get_month_ranges), the value  *)
(* normaliser (extract_numeric_value, both files' variants), the derived   *)
(* metric (calcular_cliques) and the run (get_all_data, __main__,          *)
(* upload_to_google_sheets).                                               *)
(*                                                                         *)
(* Python values are records tagged by the field t.  A text is a sequence  *)
(* of one-character strings, so that str(), str.strip(), re.sub(),         *)
(* str.replace(), float() and ast.literal_eval() are computed character by *)
(* character.  A raised exception is the value Exc.                        *)
(***************************************************************************)
EXTENDS Integers, Sequences, FiniteSets, TLC

\* ------------------------------------------------------------------ bounds
\* Largest absolute mantissa and largest number of decimals of the numbers
\* that are drawn as inputs of extract_numeric_value.
MaxMant == 12
MaxFrac == 1
\* Largest absolute spend / cpc drawn as inputs of calcular_cliques.
MaxAmount == 9
\* Number of consecutive years after FirstYear given to get_month_ranges.
YearSpan == 4
\* Largest number of campaigns a period lists, and of insight rows one
\* campaign returns, in a run.
MaxCampaigns == 2
MaxInsights == 2

\* ------------------------------------------------------- Python values
None == [t |-> "none"]
Exc == [t |-> "exc"]
Pending == [t |-> "pending"]
PyBool(b) == [t |-> "bool", b |-> b]
PyStr(s) == [t |-> "str", s |-> s]
PyList(items) == [t |-> "list", items |-> items]
PyTuple(items) == [t |-> "tuple", elts |-> items]
\* A dict is its items in insertion order, each a <<key, value>> pair.
PyDict(pairs) == [t |-> "dict", pairs |-> pairs]
\* inf, -inf and nan, which float() accepts.
NonFinite(k) == [t |-> "nonfinite", k |-> k]

RECURSIVE Pow10(_)
Pow10(n) == IF n = 0 THEN 1 ELSE 10 * Pow10(n - 1)

\* The number m * 10^-e, in lowest terms (no trailing zero decimal).
RECURSIVE Num(_, _)
Num(m, e) ==
    IF e > 0 /\ m % 10 = 0 THEN Num(m \div 10, e - 1)
    ELSE [t |-> "num", m |-> m, e |-> e]

IsStr(v) == v.t = "str"
IsList(v) == v.t = "list"
IsDict(v) == v.t = "dict"
IsNum(v) == v.t = "num"

\* ------------------------------------------------------------ characters
Digits == <<"0", "1", "2", "3", "4", "5", "6", "7", "8", "9">>
DigitSet == {Digits[i] : i \in 1..10}
DigitVal(c) == (CHOOSE i \in 1..10 : Digits[i] = c) - 1
Letters == {"a", "b", "c", "d", "e", "f", "i", "l", "n", "o", "r", "s", "t",
            "u", "v", "x", "F", "N", "T"}
IsSpace(c) == c = " "

\* The well-known words, spelled out.
W_values == <<"v", "a", "l", "u", "e", "s">>
W_value == <<"v", "a", "l", "u", "e">>
W_None == <<"N", "o", "n", "e">>
W_True == <<"T", "r", "u", "e">>
W_False == <<"F", "a", "l", "s", "e">>
W_inf == <<"i", "n", "f">>
W_nan == <<"n", "a", "n">>

\* s[i..] and s[..j]
From(s, i) == SubSeq(s, i, Len(s))
Upto(s, j) == SubSeq(s, 1, j)

\* Index of the first / last character of s not in the set cs (Len(s)+1 / 0
\* when there is none).
FirstNotIn(s, cs) ==
    IF \E i \in 1..Len(s) : s[i] \notin cs
    THEN CHOOSE i \in 1..Len(s) : s[i] \notin cs /\ \A j \in 1..(i - 1) : s[j] \in cs
    ELSE Len(s) + 1
LastNotIn(s, cs) ==
    IF \E i \in 1..Len(s) : s[i] \notin cs
    THEN CHOOSE i \in 1..Len(s) :
             s[i] \notin cs /\ \A j \in (i + 1)..Len(s) : s[j] \in cs
    ELSE 0

\* str.strip(): leading and trailing whitespace removed.
Strip(s) == SubSeq(s, FirstNotIn(s, {" "}), LastNotIn(s, {" "}))

\* re.sub(r'^[$$\s]*', '', s): the leading run of '$' and whitespace removed.
ReSubLeading(s) == From(s, FirstNotIn(s, {"$", " "}))
\* re.sub(r'[$$\s]*$', '', s): the trailing run of '$' and whitespace removed.
ReSubTrailing(s) == Upto(s, LastNotIn(s, {"$", " "}))

\* str.replace(",", ".")
ReplaceComma(s) == [i \in 1..Len(s) |-> IF s[i] = "," THEN "." ELSE s[i]]

\* Whether the text `word` occurs in s (Python's  word in s  for two strings).
Contains(s, word) ==
    \E i \in 1..(Len(s) - Len(word) + 1) : SubSeq(s, i, i + Len(word) - 1) = word

\* The value of a run of decimal digits.
RECURSIVE DigitsValue(_)
DigitsValue(s) ==
    IF s = <<>> THEN 0 ELSE 10 * DigitsValue(Upto(s, Len(s) - 1)) + DigitVal(s[Len(s)])

AllDigits(s) == \A i \in 1..Len(s) : s[i] \in DigitSet

\* An unsigned decimal literal: digits, optionally a point and more digits,
\* at least one digit in all.  Exc when s is not one.
Decimal(s) ==
    LET dots == {i \in 1..Len(s) : s[i] = "."}
    IN  IF dots = {}
        THEN IF s # <<>> /\ AllDigits(s) THEN Num(DigitsValue(s), 0) ELSE Exc
        ELSE IF Cardinality(dots) > 1 THEN Exc
        ELSE LET d == CHOOSE i \in dots : TRUE
                 ip == Upto(s, d - 1)
                 fp == From(s, d + 1)
             IN  IF AllDigits(ip) /\ AllDigits(fp) /\ Len(ip) + Len(fp) > 0
                 THEN Num(DigitsValue(ip) * Pow10(Len(fp)) + DigitsValue(fp), Len(fp))
                 ELSE Exc

Negate(n) ==
    IF n.t = "num" THEN Num(-n.m, n.e)
    ELSE IF n = NonFinite("inf") THEN NonFinite("-inf")
    ELSE IF n = NonFinite("-inf") THEN NonFinite("inf")
    ELSE n

\* float(text): surrounding whitespace ignored, an optional sign, then a
\* decimal literal, or inf / nan.  Exc (ValueError) otherwise.
PyFloat(s) ==
    LET b == Strip(s)
        signed == b # <<>> /\ b[1] \in {"-", "+"}
        u == IF signed THEN From(b, 2) ELSE b
        mag == IF u = W_inf THEN NonFinite("inf")
               ELSE IF u = W_nan THEN NonFinite("nan")
               ELSE Decimal(u)
    IN  IF signed /\ b[1] = "-" THEN Negate(mag) ELSE mag

\* The decimal digits of a natural number.
RECURSIVE NatDigits(_)
NatDigits(n) ==
    IF n < 10 THEN <<Digits[n + 1]>> ELSE NatDigits(n \div 10) \o <<Digits[(n % 10) + 1]>>

\* n as exactly w digits, zero-padded on the left.
RECURSIVE Padded(_, _)
Padded(n, w) == IF w = 0 THEN <<>> ELSE Padded(n \div 10, w - 1) \o <<Digits[(n % 10) + 1]>>

\* str() of a number: sign, integer part, and the decimals when there are any.
FormatNum(n) ==
    LET a == IF n.m < 0 THEN -n.m ELSE n.m
        p == Pow10(n.e)
        body == IF n.e = 0 THEN NatDigits(a)
                ELSE NatDigits(a \div p) \o <<".">> \o Padded(a % p, n.e)
    IN  IF n.m < 0 THEN <<"-">> \o body ELSE body

\* str(v) / repr(v): a str is itself under str() and quoted under repr().
RECURSIVE Repr(_)
RECURSIVE ReprItems(_)
RECURSIVE ReprPairs(_)
Repr(v) ==
    CASE v.t = "none" -> W_None
      [] v.t = "bool" -> IF v.b THEN W_True ELSE W_False
      [] v.t = "num" -> FormatNum(v)
      [] v.t = "nonfinite" ->
           IF v.k = "inf" THEN W_inf ELSE IF v.k = "nan" THEN W_nan ELSE <<"-">> \o W_inf
      [] v.t = "str" -> <<"'">> \o v.s \o <<"'">>
      [] v.t = "list" -> <<"[">> \o ReprItems(v.items) \o <<"]">>
      [] v.t = "tuple" -> <<"(">> \o ReprItems(v.elts) \o <<")">>
      [] v.t = "dict" -> <<"{">> \o ReprPairs(v.pairs) \o <<"}">>
ReprItems(items) ==
    IF items = <<>> THEN <<>>
    ELSE IF Len(items) = 1 THEN Repr(items[1])
    ELSE Repr(items[1]) \o <<",", " ">> \o ReprItems(Tail(items))
ReprPairs(pairs) ==
    IF pairs = <<>> THEN <<>>
    ELSE LET one == Repr(pairs[1][1]) \o <<":", " ">> \o Repr(pairs[1][2])
         IN  IF Len(pairs) = 1 THEN one ELSE one \o <<",", " ">> \o ReprPairs(Tail(pairs))
Str(v) == IF v.t = "str" THEN v.s ELSE Repr(v)

\* ------------------------------------------------------ ast.literal_eval
\* A parse result: the value read and the index after it, or a failure
\* (SyntaxError / ValueError).
Parsed(v, next) == [ok |-> TRUE, v |-> v, next |-> next]
ParseFail == [ok |-> FALSE, v |-> None, next |-> 0]

\* Index of the first non-blank character at or after i.
SkipWs(s, i) ==
    IF \E j \in i..Len(s) : ~IsSpace(s[j])
    THEN CHOOSE j \in i..Len(s) : ~IsSpace(s[j]) /\ \A k \in i..(j - 1) : IsSpace(s[k])
    ELSE Len(s) + 1

\* Index after the maximal run of characters of cs that starts at i.
RunEnd(s, i, cs) ==
    IF \E j \in i..Len(s) : s[j] \notin cs
    THEN CHOOSE j \in i..Len(s) : s[j] \notin cs /\ \A k \in i..(j - 1) : s[k] \in cs
    ELSE Len(s) + 1

\* The value of a name: only None, True and False are literals.
NameValue(w) ==
    IF w = W_None THEN None
    ELSE IF w = W_True THEN PyBool(TRUE)
    ELSE IF w = W_False THEN PyBool(FALSE)
    ELSE Exc

RECURSIVE ParseAtom(_, _)
RECURSIVE ParseElems(_, _, _, _, _)
RECURSIVE ParseDict(_, _, _)

\* One literal starting at index i of s (which is not blank).
ParseAtom(s, i) ==
    IF i > Len(s) THEN ParseFail
    ELSE LET c == s[i] IN
    CASE c = "[" ->
           LET r == ParseElems(s, i + 1, "]", <<>>, FALSE)
           IN  IF r.ok THEN Parsed(PyList(r.v.elts), r.next) ELSE ParseFail
      [] c = "(" ->
           LET r == ParseElems(s, i + 1, ")", <<>>, FALSE)
           IN  IF ~r.ok THEN ParseFail
               ELSE IF Len(r.v.elts) = 1 /\ ~r.comma THEN Parsed(r.v.elts[1], r.next)
               ELSE Parsed(r.v, r.next)
      [] c = "{" -> ParseDict(s, i + 1, <<>>)
      [] c = "'" ->
           IF \E j \in (i + 1)..Len(s) : s[j] = "'"
           THEN LET j == CHOOSE j \in (i + 1)..Len(s) :
                            s[j] = "'" /\ \A k \in (i + 1)..(j - 1) : s[k] # "'"
                IN  Parsed(PyStr(SubSeq(s, i + 1, j - 1)), j + 1)
           ELSE ParseFail
      [] c \in DigitSet \cup {"."} ->
           LET j == RunEnd(s, i, DigitSet \cup {"."})
               n == Decimal(SubSeq(s, i, j - 1))
           IN  IF n = Exc THEN ParseFail ELSE Parsed(n, j)
      [] c \in {"-", "+"} ->
           LET r == ParseAtom(s, SkipWs(s, i + 1))
           IN  IF r.ok /\ r.v.t = "num"
               THEN Parsed(IF c = "-" THEN Negate(r.v) ELSE r.v, r.next)
               ELSE ParseFail
      [] c \in Letters ->
           LET j == RunEnd(s, i, Letters)
               v == NameValue(SubSeq(s, i, j - 1))
           IN  IF v = Exc THEN ParseFail ELSE Parsed(v, j)
      [] OTHER -> ParseFail

\* Comma-separated literals up to the closing character (or, with close =
\* "", up to the end of the text); a trailing comma is allowed.
ParseElems(s, i, close, acc, comma) ==
    LET j == SkipWs(s, i)
        done == [ok |-> TRUE, v |-> PyTuple(acc), next |-> j + 1, comma |-> comma]
        fail == [ok |-> FALSE, v |-> None, next |-> 0, comma |-> comma]
    IN  IF j > Len(s) THEN (IF close = "" /\ acc # <<>> THEN done ELSE fail)
        ELSE IF s[j] = close THEN done
        ELSE LET r == ParseAtom(s, j)
                 k == SkipWs(s, r.next)
             IN  IF ~r.ok THEN fail
                 ELSE IF k <= Len(s) /\ s[k] = ","
                      THEN ParseElems(s, k + 1, close, Append(acc, r.v), TRUE)
                 ELSE IF k > Len(s)
                      THEN (IF close = ""
                            THEN [ok |-> TRUE, v |-> PyTuple(Append(acc, r.v)),
                                  next |-> k, comma |-> comma]
                            ELSE fail)
                 ELSE IF s[k] = close
                      THEN [ok |-> TRUE, v |-> PyTuple(Append(acc, r.v)),
                            next |-> k + 1, comma |-> comma]
                 ELSE fail

\* key: value pairs up to the closing brace.
ParseDict(s, i, acc) ==
    LET j == SkipWs(s, i)
    IN  IF j > Len(s) THEN ParseFail
        ELSE IF s[j] = "}" THEN Parsed(PyDict(acc), j + 1)
        ELSE LET key == ParseAtom(s, j)
                 c == SkipWs(s, key.next)
             IN  IF ~key.ok \/ c > Len(s) \/ key.v.t \in {"list", "dict"} THEN ParseFail
                 ELSE IF s[c] # ":" THEN ParseFail
                 ELSE LET val == ParseAtom(s, SkipWs(s, c + 1))
                          k == SkipWs(s, val.next)
                      IN  IF ~val.ok \/ k > Len(s) THEN ParseFail
                          ELSE IF s[k] = ","
                               THEN ParseDict(s, k + 1, Append(acc, <<key.v, val.v>>))
                          ELSE IF s[k] = "}"
                               THEN Parsed(PyDict(Append(acc, <<key.v, val.v>>)), k + 1)
                          ELSE ParseFail

\* ast.literal_eval(text): the literal the whole text spells (leading blanks
\* skipped; a top-level comma makes a tuple), Exc when it spells none.
literal_eval(s) ==
    LET i == SkipWs(s, 1)
        r == ParseAtom(s, i)
        k == SkipWs(s, r.next)
    IN  IF i > Len(s) \/ ~r.ok THEN Exc
        ELSE IF k > Len(s) THEN r.v
        ELSE IF s[k] = ","
             THEN LET rest == ParseElems(s, k + 1, "", <<r.v>>, TRUE)
                  IN  IF k = Len(s) \/ SkipWs(s, k + 1) > Len(s) THEN PyTuple(<<r.v>>)
                      ELSE IF rest.ok THEN rest.v ELSE Exc
        ELSE Exc

\* ------------------------------------------------- Python object protocol
\* bool(v): None, False, zero and the empty text / container are false.
Truthy(v) ==
    CASE v.t = "none" -> FALSE
      [] v.t = "bool" -> v.b
      [] v.t = "num" -> v.m # 0
      [] v.t = "str" -> v.s # <<>>
      [] v.t = "list" -> v.items # <<>>
      [] v.t = "tuple" -> v.elts # <<>>
      [] v.t = "dict" -> v.pairs # <<>>
      [] OTHER -> TRUE

\* Whether len(v) is defined (TypeError otherwise), and its value.
HasLen(v) == v.t \in {"str", "list", "tuple", "dict"}
PyLen(v) ==
    CASE v.t = "str" -> Len(v.s)
      [] v.t = "list" -> Len(v.items)
      [] v.t = "tuple" -> Len(v.elts)
      [] v.t = "dict" -> Len(v.pairs)

HasKey(d, key) == \E i \in 1..Len(d.pairs) : d.pairs[i][1] = key
\* The value a dict holds for a key it has (the last one written wins).
Lookup(d, key) ==
    LET i == CHOOSE i \in 1..Len(d.pairs) :
                 d.pairs[i][1] = key /\ \A j \in (i + 1)..Len(d.pairs) : d.pairs[j][1] # key
    IN  d.pairs[i][2]

\* word in v, for a text word: a key of a dict, an element of a list or
\* tuple, a substring of a str; Exc (TypeError) for anything else.
\* The answer is a PyBool.
PyIn(word, v) ==
    CASE v.t = "dict" -> PyBool(HasKey(v, PyStr(word)))
      [] v.t = "list" -> PyBool(\E i \in 1..Len(v.items) : v.items[i] = PyStr(word))
      [] v.t = "tuple" -> PyBool(\E i \in 1..Len(v.elts) : v.elts[i] = PyStr(word))
      [] v.t = "str" -> PyBool(Contains(v.s, word))
      [] OTHER -> Exc

\* v[word] for a text word: the dict's value, Exc (KeyError) when the key is
\* missing, Exc (TypeError) when v is not a dict.
GetItemKey(v, word) ==
    IF v.t = "dict" /\ HasKey(v, PyStr(word)) THEN Lookup(v, PyStr(word)) ELSE Exc

\* v[0]: the first element of a list or tuple, the first character of a str,
\* a dict's value for the key 0; Exc otherwise (IndexError, KeyError,
\* TypeError).
GetItem0(v) ==
    CASE v.t = "list" -> IF v.items # <<>> THEN v.items[1] ELSE Exc
      [] v.t = "tuple" -> IF v.elts # <<>> THEN v.elts[1] ELSE Exc
      [] v.t = "str" -> IF v.s # <<>> THEN PyStr(<<v.s[1]>>) ELSE Exc
      [] v.t = "dict" -> IF HasKey(v, Num(0, 0)) THEN Lookup(v, Num(0, 0)) ELSE Exc
      [] OTHER -> Exc

\* v.get(word): a dict's value or None; Exc (AttributeError) when v is not a
\* dict.
DictGet(v, word) ==
    IF v.t = "dict"
    THEN (IF HasKey(v, PyStr(word)) THEN Lookup(v, PyStr(word)) ELSE None)
    ELSE Exc

\* Mutant: the try without its except clause, the exception propagating.
TryWithoutExcept(body) == body

\* try: body / except Exception: pass, followed by return None.
TryExceptPass(body) == IF body = Exc THEN None ELSE body

\* ------------------------------------------------ extract_numeric_value
\* try: return float(str(val).replace(",", ".")) / except Exception:
\* return val
FloatOrRaw(val) ==
    LET f == PyFloat(ReplaceComma(Str(val)))
    IN  IF f = Exc THEN val ELSE f

\* indicator_obj["values"][0].get("value"), guarded by
\* "values" in indicator_obj and len(indicator_obj["values"]) > 0; the value
\* returned, None when a guard is false (the function falls through to its
\* last line), Exc when a step raises.
FromIndicator(indicator_obj) ==
    LET has == PyIn(W_values, indicator_obj)
        values == GetItemKey(indicator_obj, W_values)
        first == GetItem0(values)
        val == DictGet(first, W_value)
    IN  IF has = Exc THEN Exc
        ELSE IF ~has.b THEN None
        ELSE IF values = Exc \/ ~HasLen(values) THEN Exc
        ELSE IF PyLen(values) = 0 THEN None
        ELSE IF first = Exc \/ val = Exc THEN Exc
        ELSE FloatOrRaw(val)

\* Mutant: the last indicator taken instead of the first (obj[-1]).
FromLastIndicator(obj) ==
    IF obj.t = "list" /\ Len(obj.items) > 0
    THEN FromIndicator(obj.items[Len(obj.items)])
    ELSE None

\* Mutant: what is no list is converted as a value itself.
FromObjectOrScalar(obj) ==
    IF obj.t = "list" /\ Len(obj.items) > 0 THEN FromIndicator(obj.items[1])
    ELSE IF obj.t = "num" THEN obj
    ELSE None

\* if isinstance(obj, list) and len(obj) > 0: indicator_obj = obj[0] ...
FromObject(obj) ==
    IF obj.t = "list" /\ Len(obj.items) > 0 THEN FromIndicator(obj.items[1]) ELSE None

\* src/idadeGenero.py, the body of the outer try.
RawExtractBody(field) ==
    LET value_str == ReSubTrailing(ReSubLeading(Strip(Str(field))))
        parsed == literal_eval(value_str)
    IN  IF ~Truthy(field) \/ Strip(Str(field)) = <<>> THEN None
        ELSE IF value_str # <<>> /\ field.t = "str"
             THEN (IF parsed = Exc THEN None ELSE FromObject(parsed))
        ELSE FromObject(field)

\* src/idadeGenero.py: extract_numeric_value(field).
extract_numeric_value(field) == TryExceptPass(RawExtractBody(field))

\* src/app.py, the body of the try.
AppExtractBody(field) ==
    LET obj == IF field.t = "str" THEN literal_eval(field.s) ELSE field
    IN  IF obj = Exc THEN Exc ELSE FromObject(obj)

\* src/app.py: extract_numeric_value(field).
app_extract_numeric_value(field) == TryExceptPass(AppExtractBody(field))

\* ------------------------------------------------------ calcular_cliques
W_spend == <<"s", "p", "e", "n", "d">>
W_cpc == <<"c", "p", "c">>
Zero == Num(0, 0)

\* row.get(word, 0): Exc (AttributeError) when row is no mapping.
RowGet(row, word) ==
    IF row.t # "dict" THEN Exc
    ELSE IF HasKey(row, PyStr(word)) THEN Lookup(row, PyStr(word))
    ELSE Zero

\* x or 0
OrZero(x) == IF Truthy(x) THEN x ELSE Zero

\* float(x): a number is itself, a bool is 1 or 0, a text is parsed; Exc
\* (TypeError, ValueError) for anything else.
ToFloat(x) ==
    CASE x.t \in {"num", "nonfinite"} -> x
      [] x.t = "bool" -> IF x.b THEN Num(1, 0) ELSE Zero
      [] x.t = "str" -> PyFloat(x.s)
      [] OTHER -> Exc

\* x > 0 for a float.
Positive(x) == IF x.t = "num" THEN x.m > 0 ELSE x = NonFinite("inf")

\* Mutant: the quotient cut off instead of rounded.
CutOff(a, b) == a \div b

\* a / b to the nearest integer, ties to the even one (b > 0).
RoundHalfEven(a, b) ==
    LET q == a \div b
        r == a % b
    IN  IF 2 * r < b THEN q
        ELSE IF 2 * r > b THEN q + 1
        ELSE IF q % 2 = 0 THEN q ELSE q + 1

\* round(spend / cpc, 2) for cpc > 0, in IEEE arithmetic: nan and the
\* infinities propagate; a finite quotient is rounded to hundredths.  (The
\* quotient is rounded from its exact value: this is what the float gives
\* whenever a tie at the third decimal is a binary fraction.)
RoundedQuotient(spend, cpc) ==
    IF spend = NonFinite("nan") THEN spend
    ELSE IF cpc.t = "nonfinite" THEN (IF spend.t = "nonfinite" THEN NonFinite("nan") ELSE Zero)
    ELSE IF spend.t = "nonfinite" THEN spend
    ELSE Num(RoundHalfEven(100 * spend.m * Pow10(cpc.e), cpc.m * Pow10(spend.e)), 2)

\* The body of calcular_cliques' try; Exc when a step raises.
CliquesBody(row) ==
    LET s == RowGet(row, W_spend)
        c == RowGet(row, W_cpc)
        spend == ToFloat(OrZero(s))
        cpc == ToFloat(OrZero(c))
    IN  IF s = Exc \/ spend = Exc THEN Exc
        ELSE IF c = Exc \/ cpc = Exc THEN Exc
        ELSE IF Positive(cpc) THEN RoundedQuotient(spend, cpc)
        ELSE Zero

\* calcular_cliques(row): except Exception: return 0
calcular_cliques(row) ==
    LET r == CliquesBody(row) IN IF r = Exc THEN Zero ELSE r

\* ------------------------------------------------------ get_month_ranges
\* The first of the years given to get_month_ranges (YEAR's first entry).
FirstYear == 2023

\* datetime's proleptic Gregorian calendar.
IsLeap(y) == y % 4 = 0 /\ (y % 100 # 0 \/ y % 400 = 0)
DaysInMonth == <<31, 28, 31, 30, 31, 30, 31, 31, 30, 31, 30, 31>>
RECURSIVE DaysBeforeMonthTable(_)
DaysBeforeMonthTable(m) ==
    IF m = 1 THEN 0 ELSE DaysBeforeMonthTable(m - 1) + DaysInMonth[m - 1]
DaysBeforeYear(y) ==
    LET p == y - 1 IN p * 365 + (p \div 4) - (p \div 100) + (p \div 400)
DaysBeforeMonth(y, m) ==
    DaysBeforeMonthTable(m) + (IF m > 2 /\ IsLeap(y) THEN 1 ELSE 0)

\* datetime(y, m, d): Exc (ValueError) outside the years 1..9999.
DateTime(y, m, d) ==
    IF y \in 1..9999 /\ m \in 1..12 /\ d >= 1 /\
       d <= DaysInMonth[m] + (IF m = 2 /\ IsLeap(y) THEN 1 ELSE 0)
    THEN [y |-> y, m |-> m, d |-> d]
    ELSE Exc

\* date.toordinal(): day 1 is 0001-01-01.
ToOrdinal(dt) == DaysBeforeYear(dt.y) + DaysBeforeMonth(dt.y, dt.m) + dt.d

\* date.fromordinal(n): the 400-, 100-, 4- and 1-year cycles, then the month
\* estimated from the day of the year and corrected.
FromOrdinal(ordinal) ==
    LET di400 == DaysBeforeYear(401)
        di100 == DaysBeforeYear(101)
        di4 == DaysBeforeYear(5)
        n0 == ordinal - 1
        n400 == n0 \div di400
        r400 == n0 % di400
        n100 == r400 \div di100
        r100 == r400 % di100
        n4 == r100 \div di4
        r4 == r100 % di4
        n1 == r4 \div 365
        n == r4 % 365
        yr == n400 * 400 + 1 + n100 * 100 + n4 * 4 + n1
        leapyear == n1 = 3 /\ (n4 # 24 \/ n100 = 3)
        est == (n + 50) \div 32
        pre == DaysBeforeMonthTable(est) + (IF est > 2 /\ leapyear THEN 1 ELSE 0)
        month == IF pre > n THEN est - 1 ELSE est
        preceding == IF pre > n
                     THEN pre - (DaysInMonth[est - 1]
                                 + (IF est - 1 = 2 /\ leapyear THEN 1 ELSE 0))
                     ELSE pre
    IN  IF n1 = 4 \/ n100 = 4 THEN [y |-> yr - 1, m |-> 12, d |-> 31]
        ELSE [y |-> yr, m |-> month, d |-> n - preceding + 1]

\* Mutant: the day not taken off.
MinusNoDay(dt) == dt

\* dt - timedelta(days=1)
MinusOneDay(dt) == FromOrdinal(ToOrdinal(dt) - 1)

\* dt.strftime("%Y-%m-%d"), for a year of four digits (below 1000 the C
\* library decides the padding of %Y; no such year is drawn here).
Strftime(dt) == Padded(dt.y, 4) \o <<"-">> \o Padded(dt.m, 2) \o <<"-">> \o Padded(dt.d, 2)

\* The first day of the month after (year, month): datetime(year+1, 1, 1)
\* for December, datetime(year, month+1, 1) otherwise.
NextMonthFirst(yr, mo) ==
    IF mo = 12 THEN DateTime(yr + 1, 1, 1) ELSE DateTime(yr, mo + 1, 1)

\* One pass of get_month_ranges' loop: the {since, until} of a month, Exc
\* when a datetime() call raises.
MonthRange(yr, mo) ==
    LET first == DateTime(yr, mo, 1)
        nxt == NextMonthFirst(yr, mo)
    IN  IF first = Exc \/ nxt = Exc THEN Exc
        ELSE [since |-> Strftime(first), until |-> Strftime(MinusOneDay(nxt))]

\* get_month_ranges(year), for a year whose twelve passes all succeed.
get_month_ranges(yr) == [mo \in 1..12 |-> MonthRange(yr, mo)]

\* ================================================================ state
VARIABLES
    \* A call of one of the pure functions and what it returned.
    call, ret,
    \* get_month_ranges: its argument, loop variable and result list.
    year, month, month_ranges,
    \* The run: which script, where it is, and its variables.
    \* frame is the DataFrame of __main__, table what sheet.update is given.
    script, pc, yi, pi, ci, campaigns, all_rows, all_data, frame, table, outcome,
    \* The collaborators: how many campaigns a period lists and how many
    \* insight rows a campaign returns; whether a fetch has failed
    \* ("none", "transient": one fetch failed, "outage": every fetch from
    \* the first failing one on fails) and where the first failure was.
    nCampaigns, nInsights, fault, fault_at,
    \* History: the months get_all_data has asked the campaigns of in this
    \* call, the rows appended over the whole run, the calls of
    \* upload_to_google_sheets.
    attempted, collected, upload_calls

callVars == <<call, ret>>
monthVars == <<year, month, month_ranges>>
runVars == <<script, pc, yi, pi, ci, campaigns, all_rows, all_data, frame, table, outcome,
             nCampaigns, nInsights, fault, fault_at, attempted, collected,
             upload_calls>>
vars == <<call, ret, year, month, month_ranges, script, pc, yi, pi, ci, campaigns,
          all_rows, all_data, frame, table, outcome, nCampaigns, nInsights, fault,
          fault_at, attempted, collected, upload_calls>>

NoCall == call = None /\ ret = Pending
NoMonths == year = 0 /\ month = 0 /\ month_ranges = <<>>
NoRun ==
    /\ script = "none" /\ pc = "idle" /\ yi = 0 /\ pi = 0 /\ ci = 0
    /\ campaigns = <<>> /\ all_rows = <<>> /\ all_data = <<>>
    /\ frame = <<>> /\ table = <<>>
    /\ outcome = "none" /\ nCampaigns = 0 /\ nInsights = 0 /\ fault = "none"
    /\ fault_at = <<>> /\ attempted = {} /\ collected = 0 /\ upload_calls = 0

\* ------------------------------------- inputs of extract_numeric_value
Numbers == {Num(m, e) : m \in (-MaxMant)..MaxMant, e \in 0..MaxFrac} \cup {Num(125, 1)}
\* A number written with a decimal point, and with a decimal comma.
DotText(n) == FormatNum(n)
CommaText(n) ==
    LET d == FormatNum(n) IN [i \in 1..Len(d) |-> IF d[i] = "." THEN "," ELSE d[i]]
NumericTexts == {PyStr(DotText(n)) : n \in Numbers} \cup {PyStr(CommaText(n)) : n \in Numbers}
\* Values of a `value` entry that float() converts to a finite number ...
NumericValues == Numbers \cup NumericTexts
\* ... and values it does not.
OtherValues ==
    { PyStr(<<"a", "b", "c">>), PyStr(<<"1", ",", "2", ",", "3">>), PyStr(<<>>),
      PyList(<<Num(1, 0)>>), PyDict(<< <<PyStr(<<"a">>), Num(1, 0)>> >>),
      None, PyBool(TRUE), PyStr(W_inf), PyStr(W_nan) }

\* An indicator list whose first indicator's first value is v: bare, and with
\* further entries, values and indicators around it.
Indicator(v) == PyDict(<< <<PyStr(W_values), PyList(<<PyDict(<< <<PyStr(W_value), v>> >>)>>)>> >>)
Bare(v) == PyList(<<Indicator(v)>>)
Crowded(v) ==
    PyList(<< PyDict(<< <<PyStr(<<"i", "d">>), PyStr(<<"x">>)>>,
                        <<PyStr(W_values),
                          PyList(<< PyDict(<< <<PyStr(W_value), v>>,
                                              <<PyStr(<<"i", "d">>), PyStr(<<"x">>)>> >>),
                                    PyDict(<< <<PyStr(W_value), Num(9, 0)>> >>) >>)>> >>),
              Indicator(PyStr(<<"8", ",", "5">>)),
              Num(5, 0) >>)
WellFormed == {Bare(v) : v \in NumericValues \cup OtherValues}
                  \cup {Crowded(v) : v \in NumericValues \cup OtherValues}
\* Lists and mappings that are no indicator list.
Malformed ==
    { PyList(<<>>), PyList(<<Num(5, 0)>>), PyList(<<PyStr(W_values)>>), PyList(<<None>>),
      PyList(<<PyDict(<< <<PyStr(<<"x">>), Num(1, 0)>> >>)>>),
      PyList(<<PyDict(<< <<PyStr(W_values), PyList(<<>>)>> >>)>>),
      PyList(<<PyDict(<< <<PyStr(W_values), PyList(<<Num(5, 0)>>)>> >>)>>),
      PyList(<<PyDict(<< <<PyStr(W_values), Num(5, 0)>> >>)>>),
      PyList(<<PyDict(<< <<PyStr(W_values), None>> >>)>>),
      PyList(<<PyDict(<< <<PyStr(W_values), PyList(<<PyDict(<<>>)>>)>> >>)>>),
      PyList(<<PyDict(<< <<PyStr(W_values), PyStr(<<"a", "b">>)>> >>)>>),
      PyList(<<PyList(<<PyStr(W_values)>>)>>),
      PyList(<<PyStr(<<"x">> \o W_values)>>),
      Indicator(Num(1, 0)), PyDict(<<>>) }
\* Texts that spell no list.
PlainTexts ==
    { PyStr(<<>>), PyStr(<<" ">>), PyStr(<<" ", " ">>), PyStr(<<"$", "$">>),
      PyStr(<<"n", "o", "t", " ", "a", " ", "l", "i", "s", "t">>),
      PyStr(<<"[">>), PyStr(<<"[", "{", "'", "v", "a", "l", "u", "e", "s", "'", ":">>),
      PyStr(W_None), PyStr(<<"'", "a", "b", "'">>) }

\* A field and the structure it is or spells.
FieldCases ==
    {[arg |-> f, native |-> f] : f \in WellFormed \cup Malformed}
        \cup {[arg |-> PyStr(Repr(f)), native |-> f] : f \in WellFormed \cup Malformed}
        \cup {[arg |-> f, native |-> f] :
                 f \in {None, PyBool(FALSE)} \cup Numbers \cup NumericTexts \cup PlainTexts}
        \cup {[arg |-> PyStr(<<"$", " ">> \o Repr(f) \o <<" ", "$">>),
               native |-> PyStr(<<"$", " ">> \o Repr(f) \o <<" ", "$">>)] : f \in Malformed}

InitExtract ==
    /\ \E c \in FieldCases, file \in {"idadeGenero.py", "app.py"} :
           call = [t |-> "call", fn |-> "extract_numeric_value", file |-> file,
                   arg |-> c.arg, native |-> c.native]
    /\ ret = Pending
    /\ NoMonths /\ NoRun

\* src/idadeGenero.py's extract_numeric_value is called and returns (or
\* raises: ret = Exc).
CallExtract ==
    /\ call.t = "call" /\ call.fn = "extract_numeric_value"
    /\ call.file = "idadeGenero.py" /\ ret = Pending
    /\ ret' = extract_numeric_value(call.arg)
    /\ UNCHANGED <<call, monthVars, runVars>>

\* src/app.py's extract_numeric_value is called and returns (or raises).
CallAppExtract ==
    /\ call.t = "call" /\ call.fn = "extract_numeric_value"
    /\ call.file = "app.py" /\ ret = Pending
    /\ ret' = app_extract_numeric_value(call.arg)
    /\ UNCHANGED <<call, monthVars, runVars>>

NextExtract == CallExtract \/ CallAppExtract
SpecExtract == InitExtract /\ [][NextExtract]_vars

Returned == ret # Pending

\* ------------------------------------- what the claims speak about
\* A finite number.
IsFiniteNumber(v) == v.t = "num"

\* A text that writes a decimal number, the separator a point or a comma:
\* an optional minus sign, digits, at most one separator, at least one digit.
IsDecimalText(s) ==
    LET u == IF s # <<>> /\ s[1] = "-" THEN Tail(s) ELSE s
        seps == {i \in 1..Len(u) : u[i] \in {",", "."}}
    IN  /\ \A i \in 1..Len(u) : u[i] \in DigitSet \cup {",", "."}
        /\ Cardinality(seps) <= 1
        /\ Len(u) - Cardinality(seps) >= 1

\* The number such a text writes: the digits read as one integer, scaled by
\* the number of digits after the separator.
DenotedByText(s) ==
    LET neg == s[1] = "-"
        u == IF neg THEN Tail(s) ELSE s
        seps == {i \in 1..Len(u) : u[i] \in {",", "."}}
        decimals == IF seps = {} THEN 0 ELSE Len(u) - (CHOOSE i \in seps : TRUE)
        digits == SelectSeq(u, LAMBDA c : c \in DigitSet)
        mag == DigitsValue(digits)
    IN  Num(IF neg THEN -mag ELSE mag, decimals)

\* A numeric value: a number, or a text that writes one.
IsNumericValue(v) == v.t = "num" \/ (v.t = "str" /\ IsDecimalText(v.s))
NumberDenoted(v) == IF v.t = "num" THEN v ELSE DenotedByText(v.s)

\* f is a non-empty list whose element 0 has a non-empty `values` sequence
\* whose element 0 has a `value`.
HasFirstValue(f) ==
    /\ f.t = "list" /\ f.items # <<>>
    /\ f.items[1].t = "dict" /\ HasKey(f.items[1], PyStr(W_values))
    /\ Lookup(f.items[1], PyStr(W_values)).t = "list"
    /\ Lookup(f.items[1], PyStr(W_values)).items # <<>>
    /\ Lookup(f.items[1], PyStr(W_values)).items[1].t = "dict"
    /\ HasKey(Lookup(f.items[1], PyStr(W_values)).items[1], PyStr(W_value))
FirstValue(f) == Lookup(Lookup(f.items[1], PyStr(W_values)).items[1], PyStr(W_value))

ExtractReturned == Returned /\ call.t = "call" /\ call.fn = "extract_numeric_value"

\* C1: whatever the input, extract_numeric_value returns a finite number or
\* None, never a raw structure, a raw text or another un-converted value.
C1_NumberOrAbsent == ExtractReturned => (ret = None \/ IsFiniteNumber(ret))

\* C2: extract_numeric_value is total: whatever the input, the call returns
\* a value and no exception reaches the caller.
C2_NeverRaises == ExtractReturned => ret # Exc
\* A call whose body raised (the first element is no mapping, the text
\* spells no literal, ...) and that returned None all the same.
C2_RaisedInsideAndReturned ==
    /\ ExtractReturned /\ ret = None
    /\ call.arg \in {PyList(<<Num(5, 0)>>), PyList(<<None>>)}
    /\ RawExtractBody(call.arg) = Exc /\ AppExtractBody(call.arg) = Exc

\* C3: for a non-empty list, native or spelled as text, whose element 0 has a
\* non-empty `values` whose element 0 has a numeric `value` (a comma being
\* the decimal point), the result is exactly that number, whatever else the
\* list and `values` hold.
C3_FirstValueOnly ==
    (ExtractReturned /\ HasFirstValue(call.native)
                     /\ IsNumericValue(FirstValue(call.native)))
        => ret = NumberDenoted(FirstValue(call.native))
\* '12,5' as the first value of a crowded list spelled as text gives 12.5.
C3_CommaInCrowdedText ==
    /\ ExtractReturned
    /\ call.native = Crowded(PyStr(<<"1", "2", ",", "5">>))
    /\ call.arg = PyStr(Repr(call.native))
    /\ ret = Num(125, 1)

\* C4, as stated: a numeric input (a number, or a numeric text with a point
\* or a comma) is passed through as that number.
C4_PassThrough ==
    (ExtractReturned /\ IsNumericValue(call.arg)) => ret = NumberDenoted(call.arg)
\* C4, amended: a numeric input is no indicator list, and the result is None.
C4_NumericInputIsAbsent ==
    (ExtractReturned /\ IsNumericValue(call.arg)) => ret = None
\* The text '12,5' given as the field itself.
C4_CommaTextGiven ==
    /\ ExtractReturned /\ call.arg = PyStr(<<"1", "2", ",", "5">>) /\ ret = None

\* ------------------------------------------ inputs of calcular_cliques
Absent == [t |-> "absent"]
Amounts == {Num(a, 0) : a \in (-MaxAmount)..MaxAmount}
\* Values of a cell that are no plain number: null, texts (numeric with a
\* point, with a comma, not numeric, empty, inf, nan), a list, and the cell
\* missing from the row.
OddCells ==
    { Absent, None, PyStr(<<"a", "b", "c">>), PyStr(<<"3">>), PyStr(<<"2", ".", "5">>),
      PyStr(<<"1", ",", "5">>), PyStr(<<>>), PyList(<<Num(1, 0)>>),
      PyStr(W_inf), PyStr(W_nan) }
SpendCells == Amounts \cup {Num(100, 0), Num(-100, 0)} \cup OddCells
CpcCells == Amounts \cup OddCells
Row(spend, cpc) ==
    PyDict((IF spend = Absent THEN <<>> ELSE << <<PyStr(W_spend), spend>> >>)
           \o (IF cpc = Absent THEN <<>> ELSE << <<PyStr(W_cpc), cpc>> >>))

InitCliques ==
    /\ \E sp \in SpendCells, cp \in CpcCells :
           call = [t |-> "call", fn |-> "calcular_cliques", file |-> "idadeGenero.py",
                   arg |-> Row(sp, cp), native |-> Row(sp, cp)]
    /\ ret = Pending
    /\ NoMonths /\ NoRun

\* calcular_cliques is called and returns.
CallCliques ==
    /\ call.t = "call" /\ call.fn = "calcular_cliques" /\ ret = Pending
    /\ ret' = calcular_cliques(call.arg)
    /\ UNCHANGED <<call, monthVars, runVars>>

NextCliques == CallCliques
SpecCliques == InitCliques /\ [][NextCliques]_vars

CliquesReturned == Returned /\ call.t = "call" /\ call.fn = "calcular_cliques"

\* The cell of a row, Absent when the row has none.
Cell(row, word) == IF HasKey(row, PyStr(word)) THEN Lookup(row, PyStr(word)) ELSE Absent
\* A cell that holds a number: a number, or a text writing one with a point.
IsNumberCell(v) ==
    v.t = "num" \/ (v.t = "str" /\ IsDecimalText(v.s) /\ \A i \in 1..Len(v.s) : v.s[i] # ",")
\* A cell read as a number, 0 when it is absent, null or not numeric.
ReadOrZero(v) == IF IsNumberCell(v) THEN NumberDenoted(v) ELSE Zero
\* A cell whose text float() reads as inf or nan.
IsNonFiniteCell(v) == v.t = "str" /\ v.s \in {W_inf, W_nan}

\* The hundredths nearest to a / b (b > 0), of two equally near the even one.
Abs(x) == IF x < 0 THEN -x ELSE x
NearestHundredths(a, b) ==
    CHOOSE h \in {(100 * a) \div b, ((100 * a) \div b) + 1} :
        /\ 2 * Abs(100 * a - h * b) <= b
        /\ (2 * Abs(100 * a - h * b) = b => h % 2 = 0)
\* round(spend / cpc, 2) when cpc > 0, else 0.
CliquesFormula(spend, cpc) ==
    IF cpc.m > 0
    THEN Num(NearestHundredths(spend.m * Pow10(cpc.e), cpc.m * Pow10(spend.e)), 2)
    ELSE Zero

\* C6: calcular_cliques returns a number >= 0, never absent, for every
\* spend and cpc (present, missing, null, zero, negative, not numeric), and
\* 0 when cpc is zero or missing.
C6_NonNegative ==
    CliquesReturned =>
        /\ ret.t = "num" /\ ret.m >= 0
        /\ (Cell(call.arg, W_cpc) \in {Absent, Zero} => ret = Zero)

\* C7: calcular_cliques(row) is round(spend / cpc, 2) when cpc > 0 and 0
\* otherwise, spend and cpc each read as a number and each defaulting to 0
\* when absent or not numeric; no error is raised.  (Rows whose cells float()
\* reads as inf or nan are left out.)
C7_Formula ==
    (CliquesReturned /\ ~IsNonFiniteCell(Cell(call.arg, W_spend))
                     /\ ~IsNonFiniteCell(Cell(call.arg, W_cpc)))
        => /\ ret # Exc
           /\ ret = CliquesFormula(ReadOrZero(Cell(call.arg, W_spend)),
                                   ReadOrZero(Cell(call.arg, W_cpc)))
\* spend = 100 and cpc = 2 give 50.0.
C7_HundredByTwo ==
    /\ CliquesReturned /\ call.arg = Row(Num(100, 0), Num(2, 0)) /\ ret = Num(50, 0)

\* ------------------------------------------- get_month_ranges, stepwise
Years == (FirstYear..(FirstYear + YearSpan)) \cup {1900, 2000, 2100}

InitMonths ==
    /\ year \in Years /\ month = 1 /\ month_ranges = <<>>
    /\ NoCall /\ NoRun

\* One pass of the loop  for month in range(1, 13).
GenMonth ==
    /\ month \in 1..12 /\ MonthRange(year, month) # Exc
    /\ month_ranges' = Append(month_ranges, MonthRange(year, month))
    /\ month' = month + 1
    /\ UNCHANGED <<year, callVars, runVars>>

NextMonths == GenMonth
SpecMonths == InitMonths /\ [][NextMonths]_vars

\* The calendar, as the claim speaks of it.
LastDayOf(y, m) ==
    IF m \in {4, 6, 9, 11} THEN 30
    ELSE IF m # 2 THEN 31
    ELSE IF y % 400 = 0 \/ (y % 4 = 0 /\ y % 100 # 0) THEN 29 ELSE 28
\* A YYYY-MM-DD text read back.
ReadDate(s) ==
    [y |-> DigitsValue(SubSeq(s, 1, 4)), m |-> DigitsValue(SubSeq(s, 6, 7)),
     d |-> DigitsValue(SubSeq(s, 9, 10))]
IsDateText(s) ==
    /\ Len(s) = 10 /\ s[5] = "-" /\ s[8] = "-"
    /\ \A i \in (1..10) \ {5, 8} : s[i] \in DigitSet
\* b is the day after a.
DayAfter(a, b) ==
    IF a.d < LastDayOf(a.y, a.m) THEN b = [y |-> a.y, m |-> a.m, d |-> a.d + 1]
    ELSE IF a.m < 12 THEN b = [y |-> a.y, m |-> a.m + 1, d |-> 1]
    ELSE b = [y |-> a.y + 1, m |-> 1, d |-> 1]

\* C8: get_month_ranges(Y) returns exactly 12 ranges in month order, range m
\* from the first to the last calendar day of month m (February the 29th in
\* leap years), each `since` the day after the previous `until`: Jan 1 to
\* Dec 31 with no gap and no overlap.
C8_TwelveCalendarMonths ==
    /\ Len(month_ranges) = (IF month = 0 THEN 0 ELSE month - 1)
    /\ Len(month_ranges) <= 12
    /\ \A m \in 1..Len(month_ranges) :
           /\ IsDateText(month_ranges[m].since) /\ IsDateText(month_ranges[m].until)
           /\ ReadDate(month_ranges[m].since) = [y |-> year, m |-> m, d |-> 1]
           /\ ReadDate(month_ranges[m].until) = [y |-> year, m |-> m, d |-> LastDayOf(year, m)]
           /\ m > 1 => DayAfter(ReadDate(month_ranges[m - 1].until),
                                ReadDate(month_ranges[m].since))
    /\ (month # 0 /\ ~ENABLED GenMonth) => Len(month_ranges) = 12
\* The twelve ranges of the leap year 2024, February ending on the 29th.
C8_LeapFebruary ==
    /\ year = 2024 /\ Len(month_ranges) = 12
    /\ month_ranges[2] = [since |-> <<"2", "0", "2", "4", "-", "0", "2", "-", "0", "1">>,
                          until |-> <<"2", "0", "2", "4", "-", "0", "2", "-", "2", "9">>]
    /\ month_ranges[12].until = <<"2", "0", "2", "4", "-", "1", "2", "-", "3", "1">>

\* ================================================================ the run
\* YEAR: src/app.py names one year, src/idadeGenero.py a list of three.
YearList(scr) == IF scr = "app.py" THEN <<2025>> ELSE <<2023, 2024, 2025>>

\* The period get_all_data is at: get_month_ranges(year)[pi].
Period == get_month_ranges(YearList(script)[yi])[pi]

\* What fetch_campaigns returns for a period: the campaigns' ids.
FetchedCampaigns == [c \in 1..nCampaigns |-> c]

\* What fetch_campaign_insights returns for a campaign and a period: the
\* campaign's rows, dated in the month asked for; every second row comes
\* without its campaign_name.
FetchedInsights(campaign, since) ==
    [k \in 1..nInsights |->
        [y |-> ReadDate(since).y, m |-> ReadDate(since).m, c |-> campaign, k |-> k,
         campaign_name |-> IF k % 2 = 1 THEN "insight" ELSE "missing"]]

\* if "campaign_name" not in insight: insight["campaign_name"] = campaign["name"]
WithCampaignName(insight) ==
    IF insight.campaign_name = "missing"
    THEN [insight EXCEPT !.campaign_name = "campaign"]
    ELSE insight

\* for insight in insights: ... all_rows.append(insight)
AppendInsights(rows, insights) ==
    rows \o [k \in 1..Len(insights) |-> WithCampaignName(insights[k])]

\* The raw `results` and `spend` cells of an insight row (by its number in
\* the campaign's answer): an indicator list, its text, an empty list.
ResultsOf(k) ==
    IF k = 1 THEN Bare(PyStr(<<"1", "2", ",", "5">>))
    ELSE IF k = 2 THEN PyStr(Repr(Bare(Num(3, 0))))
    ELSE PyList(<<>>)
SpendOf(k) == PyStr(NatDigits(k))

\* df["results"].apply(extract_numeric_value) and
\* df.apply(calcular_cliques, axis=1), for each of the raw rows a campaign
\* can return.
ResultsValueOf == [k \in 1..MaxInsights |-> extract_numeric_value(ResultsOf(k))]
CliquesOf == [k \in 1..MaxInsights |-> calcular_cliques(Row(SpendOf(k), Absent))]

\* The rows of the DataFrame handed to upload_to_google_sheets:
\* src/idadeGenero.py adds results_value and cliques (cpc is not among its
\* INSIGHT_FIELDS), src/app.py adds nothing.
DataRow(scr, r) ==
    IF scr = "app.py"
    THEN [y |-> r.y, m |-> r.m, c |-> r.c, k |-> r.k, campaign_name |-> r.campaign_name,
          results_value |-> Absent, cliques |-> Absent]
    ELSE [y |-> r.y, m |-> r.m, c |-> r.c, k |-> r.k, campaign_name |-> r.campaign_name,
          results_value |-> ResultsValueOf[r.k], cliques |-> CliquesOf[r.k]]
\* df.columns
Header(scr) ==
    [columns |-> IF scr = "app.py"
                 THEN <<"campaign_name", "results", "spend", "date_start">>
                 ELSE <<"campaign_name", "results", "spend", "date_start",
                        "results_value", "cliques">>]
\* pd.DataFrame(all_data) with the derived columns.
DataFrame(scr, rows) == [i \in 1..Len(rows) |-> DataRow(scr, rows[i])]
\* [df.columns.values.tolist()] + df.values.tolist(): the conversions of
\* upload_to_google_sheets before it change cells, never the rows or their
\* order.
SheetValues(scr, df) == <<Header(scr)>> \o df

\* Mutant: the year's rows replace the rows of the years before.
Overwrite(acc, data) == data

\* all_data.extend(data) in src/idadeGenero.py; src/app.py publishes data.
Extend(acc, data) == acc \o data

\* except Exception as e: print(...) around upload_to_google_sheets: the run
\* ends normally.
UploadErrorPropagates == [pc |-> "crashed", outcome |-> "raised"]
UploadErrorCaught == [pc |-> "done", outcome |-> "publish_failed"]

InitRun ==
    /\ script \in {"app.py", "idadeGenero.py"}
    /\ nCampaigns \in 0..MaxCampaigns /\ nInsights \in 0..MaxInsights
    /\ pc = "start_year" /\ yi = 1 /\ pi = 0 /\ ci = 0
    /\ campaigns = <<>> /\ all_rows = <<>> /\ all_data = <<>>
    /\ frame = <<>> /\ table = <<>>
    /\ outcome = "none" /\ fault = "none" /\ fault_at = <<>>
    /\ attempted = {} /\ collected = 0 /\ upload_calls = 0
    /\ NoCall /\ NoMonths

envVars == <<script, nCampaigns, nInsights>>

\* __main__ calls get_all_data(year): all_rows = [], the first period.
StartYear ==
    /\ pc = "start_year"
    /\ all_rows' = <<>> /\ pi' = 1 /\ ci' = 0 /\ campaigns' = <<>>
    /\ attempted' = {}
    /\ pc' = "fetch_campaigns"
    /\ UNCHANGED <<envVars, yi, all_data, frame, table, outcome, fault, fault_at, collected,
                   upload_calls, callVars, monthVars>>

\* The loop goes to the next period, or get_all_data returns all_rows.
ToNextPeriod ==
    /\ IF pi < 12 THEN pi' = pi + 1 /\ pc' = "fetch_campaigns"
                  ELSE pi' = pi /\ pc' = "year_done"
    /\ ci' = 0

\* A fetch fails: this one alone, or this and every later one.
FaultBegins(at) ==
    IF fault = "none"
    THEN fault' \in {"transient", "outage"} /\ fault_at' = at
    ELSE UNCHANGED <<fault, fault_at>>

\* fetch_campaigns(period) returns the period's campaigns.
FetchCampaignsOk ==
    /\ pc = "fetch_campaigns" /\ fault # "outage"
    /\ attempted' = attempted \cup {pi}
    /\ campaigns' = FetchedCampaigns
    /\ IF FetchedCampaigns # <<>>
       THEN ci' = 1 /\ pc' = "fetch_insights" /\ pi' = pi
       ELSE ToNextPeriod
    /\ UNCHANGED <<envVars, yi, all_rows, all_data, frame, table, outcome, fault, fault_at,
                   collected, upload_calls, callVars, monthVars>>

\* fetch_campaigns(period) raises: the period's except clause, next period.
FetchCampaignsFails ==
    /\ pc = "fetch_campaigns" /\ fault \in {"none", "outage"}
    /\ attempted' = attempted \cup {pi}
    /\ FaultBegins(<<yi, pi, 0>>)
    /\ ToNextPeriod
    /\ UNCHANGED <<envVars, yi, campaigns, all_rows, all_data, frame, table, outcome,
                   collected, upload_calls, callVars, monthVars>>

\* fetch_campaign_insights(campaign, period) returns: its rows are appended.
FetchInsightsOk ==
    /\ pc = "fetch_insights" /\ fault # "outage"
    /\ LET insights == FetchedInsights(campaigns[ci], Period.since)
       IN  /\ all_rows' = AppendInsights(all_rows, insights)
           /\ collected' = collected + Len(insights)
    /\ IF ci < Len(campaigns)
       THEN ci' = ci + 1 /\ pc' = pc /\ pi' = pi
       ELSE ToNextPeriod
    /\ UNCHANGED <<envVars, yi, campaigns, all_data, frame, table, outcome, fault, fault_at,
                   attempted, upload_calls, callVars, monthVars>>

\* fetch_campaign_insights raises: the period's except clause, next period;
\* what was appended stays.
FetchInsightsFails ==
    /\ pc = "fetch_insights" /\ fault \in {"none", "outage"}
    /\ FaultBegins(<<yi, pi, ci>>)
    /\ ToNextPeriod
    /\ UNCHANGED <<envVars, yi, campaigns, all_rows, all_data, frame, table, outcome,
                   attempted, collected, upload_calls, callVars, monthVars>>

\* get_all_data has returned.  src/idadeGenero.py: if data:
\* all_data.extend(data), then the next year; src/app.py: data is all.
EndYear ==
    /\ pc = "year_done"
    /\ all_data' = IF script = "app.py" THEN all_rows
                   ELSE IF all_rows # <<>> THEN Extend(all_data, all_rows)
                   ELSE all_data
    /\ IF yi < Len(YearList(script))
       THEN yi' = yi + 1 /\ pc' = "start_year"
       ELSE yi' = yi /\ pc' = "collected"
    /\ UNCHANGED <<envVars, pi, ci, campaigns, all_rows, frame, table, outcome, fault,
                   fault_at, attempted, collected, upload_calls, callVars, monthVars>>

\* if all_data: ... else: print("Nenhum dado encontrado ...").
NoData ==
    /\ pc = "collected" /\ all_data = <<>>
    /\ outcome' = "no_data" /\ pc' = "done"
    /\ UNCHANGED <<envVars, yi, pi, ci, campaigns, all_rows, all_data, frame, table, fault,
                   fault_at, attempted, collected, upload_calls, callVars, monthVars>>

\* Whether a row of the frame holds a raised exception.
RowRaised(r) == r.results_value = Exc \/ r.cliques = Exc

\* if all_data: the DataFrame and its derived columns are built (outside any
\* try: an exception here leaves the run).
BuildFrame ==
    /\ pc = "collected" /\ all_data # <<>>
    /\ frame' = DataFrame(script, all_data)
    /\ IF \E i \in 1..Len(frame') : RowRaised(frame'[i])
       THEN pc' = "crashed" /\ outcome' = "raised"
       ELSE pc' = "upload" /\ outcome' = outcome
    /\ UNCHANGED <<envVars, yi, pi, ci, campaigns, all_rows, all_data, table, fault,
                   fault_at, attempted, collected, upload_calls, callVars, monthVars>>

\* upload_to_google_sheets(df, ...) is called and sheet.update is given the
\* header and the rows.
UploadOk ==
    /\ pc = "upload"
    /\ upload_calls' = upload_calls + 1
    /\ table' = SheetValues(script, frame)
    /\ outcome' = "published" /\ pc' = "done"
    /\ UNCHANGED <<envVars, yi, pi, ci, campaigns, all_rows, all_data, frame, fault,
                   fault_at, attempted, collected, callVars, monthVars>>

\* upload_to_google_sheets(df, ...) is called and raises, before
\* sheet.update (credentials, opening the sheet) or in it: the except
\* clause of __main__.
UploadFails ==
    /\ pc = "upload"
    /\ upload_calls' = upload_calls + 1
    /\ \E inUpdate \in BOOLEAN :
           table' = IF inUpdate THEN SheetValues(script, frame) ELSE table
    /\ outcome' = UploadErrorCaught.outcome /\ pc' = UploadErrorCaught.pc
    /\ UNCHANGED <<envVars, yi, pi, ci, campaigns, all_rows, all_data, frame, fault,
                   fault_at, attempted, collected, callVars, monthVars>>

Next ==
    \/ StartYear
    \/ FetchCampaignsOk
    \/ FetchCampaignsFails
    \/ FetchInsightsOk
    \/ FetchInsightsFails
    \/ EndYear
    \/ NoData
    \/ BuildFrame
    \/ UploadOk
    \/ UploadFails

Init == InitRun
Spec == Init /\ [][Next]_vars

\* ------------------------------------------------- claims about the run
\* C5: when a fetch fails during one month period, the exception is caught
\* inside that period's iteration, the period contributes no rows at all
\* (not even those of campaigns fetched before the failure), and the loop
\* goes on to every remaining period of the year.
C5_FailedPeriodContributesNothing ==
    fault # "none" =>
        /\ (yi = fault_at[1] /\ pc \in {"fetch_campaigns", "fetch_insights", "year_done"}
                             /\ (pi > fault_at[2] \/ pc = "year_done"))
               => \A i \in 1..Len(all_rows) : all_rows[i].m # fault_at[2]
        /\ pc = "year_done" => attempted = 1..12
        /\ pc # "crashed"

\* The row of the i-th insight fetched when no fetch fails: years, then
\* months, then campaigns, then the campaign's rows, in order.
ExpectedCount == Len(YearList(script)) * 12 * nCampaigns * nInsights
ExpectedIdentity(i) ==
    LET perPeriod == nCampaigns * nInsights
        z == i - 1
    IN  [y |-> YearList(script)[(z \div (12 * perPeriod)) + 1],
         m |-> ((z \div perPeriod) % 12) + 1,
         c |-> ((z \div nInsights) % nCampaigns) + 1,
         k |-> (z % nInsights) + 1]
IdentityOf(r) == [y |-> r.y, m |-> r.m, c |-> r.c, k |-> r.k]

\* C9: absent any fetch failure, the table handed to the publisher has one
\* header row followed by exactly one data row per insight row fetched, over
\* every period and campaign, in fetch order.
C9_OneRowPerInsight ==
    (table # <<>> /\ fault = "none") =>
        /\ Len(table) = 1 + ExpectedCount
        /\ table[1] = Header(script)
        /\ \A i \in 1..ExpectedCount :
               /\ "columns" \notin DOMAIN table[i + 1]
               /\ IdentityOf(table[i + 1]) = ExpectedIdentity(i)
\* Three years of twelve months, every campaign returning every row.
C9_FullYearsPublished ==
    /\ upload_calls = 1 /\ fault = "none" /\ script = "idadeGenero.py"
    /\ nCampaigns = MaxCampaigns /\ nInsights = MaxInsights
    /\ Len(table) = 1 + 3 * 12 * MaxCampaigns * MaxInsights

====
